---- MODULE Spec2Model ----
(***************************************************************************)
(* Vega: a command assistant.  An utterance is classified by a local LLM   *)
(* (llm.py parse_command), dispatched on its intent (main.py run_cli) and  *)
(* handled by one of four handlers; the Spotify handler (spot.py) drives   *)
(* the media-control service.                                              *)
(*                                                                         *)
(* Python strings are sequences of one-character strings.  A completion    *)
(* text is a sequence of JSON lexemes, whitespace and prose symbols.       *)
(* Python values are tagged records [t |-> type, v |-> payload].           *)
(***************************************************************************)
EXTENDS Naturals, Integers, Sequences, FiniteSets, TLC

VARIABLES
    pc,             \* position of the CLI thread (run_cli and the handler it called)
    user_input,     \* run_cli: the stripped line read by input()
    response,       \* parse_command: how the request of this iteration ended
    parsed,         \* outcome of the latest parse_command call (returned value or exception)
    command_data,   \* run_cli: the Command returned by parse_command
    sp,             \* spot.py global: cached client handle
    spotify_oauth,  \* spot.py global: SpotifyOAuth object
    cache_file,     \* .spotify_cache on disk
    settings_file,  \* settings.json on disk
    credentials,    \* SPOTIPY_CLIENT_ID / SPOTIPY_CLIENT_SECRET present in the environment
    action,         \* handle_spotify_command local
    track_query,    \* handle_spotify_command local
    devices,        \* get_active_device_id local: the device list returned by the service
    device_id,      \* handle_spotify_command local
    settings,       \* _handle_spotify_play_queue local: what load_settings returned
    final_action,   \* _handle_spotify_play_queue local
    tries,          \* number of device prompts answered in this invocation
    calls,          \* external operations of the current loop iteration, in order
    out,            \* status lines printed in the current loop iteration, in order
    invoked,        \* handlers called in the current loop iteration, in order
    web             \* dashboard thread: its latest request, position and reply

vars == <<pc, user_input, response, parsed, command_data, sp, spotify_oauth, cache_file,
          settings_file, credentials, action, track_query, devices, device_id,
          settings, final_action, tries, calls, out, invoked, web>>

\* ------------------------------------------------------------------ bounds
\* Longest run of whitespace/prose symbols placed around a completion.
MaxPad == 1
\* Most devices the media service reports.
MaxDevices == 2
\* Most answers the user gives to the device prompt in one invocation.
MaxTries == 1

\* ------------------------------------------------------------- Python values
None == [t |-> "NoneType"]
Str(s) == [t |-> "str", s |-> s]
\* A str holding a completion text: its symbols are lexemes, not characters.
Text(lex) == [t |-> "str", lex |-> lex]
\* An int, held as its decimal digits.
Num(n) == [t |-> "int", n |-> n]
List(xs) == [t |-> "list", xs |-> xs]
Dict(f) == [t |-> "dict", m |-> f]
Bool(b) == [t |-> "bool", b |-> b]
\* A key that a dict does not hold (used only to build dicts).
ABSENT == [t |-> "absent"]

\* Python truthiness, as `if not x` evaluates it.
Truthy(x) ==
    CASE x.t = "NoneType" -> FALSE
      [] x.t = "bool" -> x.b
      [] x.t = "str" -> x # Str(<<>>) /\ x # Text(<<>>)
      [] x.t = "int" -> x.n # <<"0">>
      [] x.t = "list" -> x.xs # <<>>
      [] x.t = "dict" -> DOMAIN x.m # {}
      [] OTHER -> TRUE

\* dict.get(k, default)
Get(d, k, default) == IF k \in DOMAIN d.m THEN d.m[k] ELSE default

\* hash(x) succeeds: lists and dicts are unhashable.
Hashable(x) == x.t \notin {"list", "dict"}

\* s.startswith(p)
StartsWith(s, p) == Len(s) >= Len(p) /\ SubSeq(s, 1, Len(p)) = p

\* p in s, for strings
IsSubstring(p, s) ==
    \E i \in 0..Len(s) : i + Len(p) <= Len(s) /\ SubSeq(s, i + 1, i + Len(p)) = p

\* -------------------------------------------------------- program constants
CMD_SPOTIFY == <<"s", "p", "o", "t", "i", "f", "y">>
CMD_NETFLIX == <<"n", "e", "t", "f", "l", "i", "x">>
CMD_WEBSITE == <<"w", "e", "b", "s", "i", "t", "e">>
CMD_UNKNOWN == <<"u", "n", "k", "n", "o", "w", "n">>
SUPPORTED_INTENTS == {CMD_SPOTIFY, CMD_NETFLIX, CMD_WEBSITE}

SPOTIFY_ACTION_PLAY == <<"p", "l", "a", "y">>
SPOTIFY_ACTION_QUEUE == <<"q", "u", "e", "u", "e">>
SPOTIFY_ACTION_SKIP_NEXT == <<"s", "k", "i", "p", "_", "n", "e", "x", "t">>
SPOTIFY_ACTION_SKIP_PREVIOUS ==
    <<"s", "k", "i", "p", "_", "p", "r", "e", "v", "i", "o", "u", "s">>
SPOTIFY_ACTION_PAUSE == <<"p", "a", "u", "s", "e">>
SPOTIFY_ACTION_RESUME == <<"r", "e", "s", "u", "m", "e">>

\* The intent enum and the action enum of COMMAND_SCHEMA.
SchemaIntents == SUPPORTED_INTENTS \cup {CMD_UNKNOWN}
SchemaActions ==
    {SPOTIFY_ACTION_PLAY, SPOTIFY_ACTION_QUEUE, SPOTIFY_ACTION_SKIP_NEXT,
     SPOTIFY_ACTION_SKIP_PREVIOUS, SPOTIFY_ACTION_PAUSE, SPOTIFY_ACTION_RESUME}

\* Dictionary keys the program reads.
K_intent == <<"i", "n", "t", "e", "n", "t">>
K_query == <<"q", "u", "e", "r", "y">>
K_spotify_command ==
    <<"s", "p", "o", "t", "i", "f", "y", "_", "c", "o", "m", "m", "a", "n", "d">>
K_action == <<"a", "c", "t", "i", "o", "n">>
K_track_query == <<"t", "r", "a", "c", "k", "_", "q", "u", "e", "r", "y">>
K_response == <<"r", "e", "s", "p", "o", "n", "s", "e">>

\* The marker parse_command returns when the request fails.
ConnectionErrorText ==
    <<"C", "o", "n", "n", "e", "c", "t", "i", "o", "n", " ", "E", "r", "r", "o", "r">>

\* ------------------------------------------------------------ JSON lexemes
T_ws == [k |-> "ws"]
T_prose == [k |-> "prose"]
T_lbrace == [k |-> "{"]
T_rbrace == [k |-> "}"]
T_lbrack == [k |-> "["]
T_rbrack == [k |-> "]"]
T_comma == [k |-> ","]
T_colon == [k |-> ":"]
T_null == [k |-> "null"]
T_str(s) == [k |-> "str", v |-> s]
T_int(n) == [k |-> "int", v |-> n]

\* str.lstrip / str.rstrip / str.strip on a text: whitespace only.
RECURSIVE lstrip(_)
lstrip(t) == IF t # <<>> /\ Head(t).k = "ws" THEN lstrip(Tail(t)) ELSE t

RECURSIVE rstrip(_)
rstrip(t) ==
    IF t # <<>> /\ t[Len(t)].k = "ws" THEN rstrip(SubSeq(t, 1, Len(t) - 1)) ELSE t

strip(t) == rstrip(lstrip(t))

\* The decoder's result on malformed input (json.JSONDecodeError).
DecodeFail == [ok |-> FALSE, val |-> None, rest |-> <<>>]
DecodeOk(v, rest) == [ok |-> TRUE, val |-> v, rest |-> rest]

\* json.loads's recursive descent: one value at the head of t, the rest returned.
\* In an object a repeated key keeps its last value.
RECURSIVE ParseValue(_), ParseMembers(_, _), ParseElements(_, _)
ParseValue(t0) ==
    LET t == lstrip(t0) IN
    IF t = <<>> THEN DecodeFail
    ELSE LET h == Head(t) IN
         CASE h.k = "str" -> DecodeOk(Str(h.v), Tail(t))
           [] h.k = "int" -> DecodeOk(Num(h.v), Tail(t))
           [] h.k = "null" -> DecodeOk(None, Tail(t))
           [] h.k = "{" ->
                LET t1 == lstrip(Tail(t)) IN
                IF t1 # <<>> /\ Head(t1).k = "}"
                THEN DecodeOk(Dict(<<>>), Tail(t1))
                ELSE ParseMembers(t1, <<>>)
           [] h.k = "[" ->
                LET t1 == lstrip(Tail(t)) IN
                IF t1 # <<>> /\ Head(t1).k = "]"
                THEN DecodeOk(List(<<>>), Tail(t1))
                ELSE ParseElements(t1, <<>>)
           [] OTHER -> DecodeFail

ParseMembers(t0, acc) ==
    LET t == lstrip(t0) IN
    IF t = <<>> \/ Head(t).k # "str" THEN DecodeFail
    ELSE LET t1 == lstrip(Tail(t)) IN
         IF t1 = <<>> \/ Head(t1).k # ":" THEN DecodeFail
         ELSE LET r == ParseValue(Tail(t1)) IN
              IF ~r.ok THEN DecodeFail
              ELSE LET acc2 == (Head(t).v :> r.val) @@ acc
                       t2 == lstrip(r.rest)
                   IN  IF t2 = <<>> THEN DecodeFail
                       ELSE IF Head(t2).k = "," THEN ParseMembers(Tail(t2), acc2)
                       ELSE IF Head(t2).k = "}" THEN DecodeOk(Dict(acc2), Tail(t2))
                       ELSE DecodeFail

ParseElements(t0, acc) ==
    LET r == ParseValue(t0) IN
    IF ~r.ok THEN DecodeFail
    ELSE LET acc2 == Append(acc, r.val)
             t2 == lstrip(r.rest)
         IN  IF t2 = <<>> THEN DecodeFail
             ELSE IF Head(t2).k = "," THEN ParseElements(Tail(t2), acc2)
             ELSE IF Head(t2).k = "]" THEN DecodeOk(List(acc2), Tail(t2))
             ELSE DecodeFail

\* json.loads(text): one value, then nothing but whitespace.
json_loads(text) ==
    LET r == ParseValue(text) IN
    IF r.ok /\ lstrip(r.rest) = <<>> THEN [ok |-> TRUE, val |-> r.val]
    ELSE [ok |-> FALSE, val |-> None]

\* json.dumps, with a blank after each colon: the text of a value as the model
\* writes it.  Keys are written in the order of KeyOrder.
KeyOrder == <<K_intent, K_query, K_spotify_command, K_action, K_track_query, K_response>>

RECURSIVE Encode(_), EncodeMembers(_, _), EncodeElements(_)
Encode(x) ==
    CASE x.t = "str" -> <<T_str(x.s)>>
      [] x.t = "int" -> <<T_int(x.n)>>
      [] x.t = "NoneType" -> <<T_null>>
      [] x.t = "list" -> <<T_lbrack>> \o EncodeElements(x.xs) \o <<T_rbrack>>
      [] x.t = "dict" ->
           <<T_lbrace>>
           \o EncodeMembers(x.m, SelectSeq(KeyOrder, LAMBDA k : k \in DOMAIN x.m))
           \o <<T_rbrace>>

EncodeMembers(f, ks) ==
    IF ks = <<>> THEN <<>>
    ELSE <<T_str(Head(ks)), T_colon, T_ws>> \o Encode(f[Head(ks)])
         \o (IF Len(ks) > 1 THEN <<T_comma>> ELSE <<>>)
         \o EncodeMembers(f, Tail(ks))

EncodeElements(xs) ==
    IF xs = <<>> THEN <<>>
    ELSE Encode(Head(xs)) \o (IF Len(xs) > 1 THEN <<T_comma>> ELSE <<>>)
         \o EncodeElements(Tail(xs))

\* --------------------------------------------------------------- the inputs
\* What the user types at the prompt (before .strip()).
Utterances == {<<"g", "o">>, <<"h", "i", " ", "u">>}
RawLines ==
    Utterances
    \cup {<<>>, <<" ">>, <<" ", "g", "o", " ">>,
          <<"e", "x", "i", "t">>, <<"Q", "u", "i", "t", " ">>}

\* An intent string outside the schema's enum.
UndeclaredIntent == <<"w", "e", "a", "t", "h", "e", "r">>
\* An action string outside the schema's enum.
UndeclaredAction == <<"s", "h", "u", "f", "f", "l", "e">>
SampleQuery == <<"a", ".", "c", "o">>
SampleTrack == <<"f", "a", "d", "e", "d">>

\* A one-key dict body, or nothing when the key is absent.
Field(k, x) == IF x.t = "absent" THEN <<>> ELSE (k :> x)

IntentChoices ==
    {ABSENT, None, List(<<>>)} \cup {Str(i) : i \in SchemaIntents \cup {UndeclaredIntent}}
\* Query strings: with and without a scheme, with a cut scheme, with characters
\* that are reserved in a URL, and the empty one.
QueryStrings ==
    {SampleQuery, <<>>,
     <<"h", "t", "t", "p", ":", "/", "/", "a">>,
     <<"h", "t", "t", "p", "s", ":", "/", "/", "a">>,
     <<"h", "t", "t", "p", ":", "/", "a">>,
     <<"a", " ", "b", "&", "c", "#", "?">>}
QueryChoices == {ABSENT, None} \cup {Str(q) : q \in QueryStrings}
ActionChoices ==
    {ABSENT, None} \cup {Str(a) : a \in SchemaActions \cup {UndeclaredAction}}
TrackQueryChoices == {ABSENT, Str(<<>>), Str(SampleTrack)}
SpotifyCommandChoices ==
    {ABSENT, None, Str(SPOTIFY_ACTION_PLAY)}
    \cup {Dict(Field(K_action, a) @@ Field(K_track_query, t)) :
            a \in ActionChoices, t \in TrackQueryChoices}

MkCommand(i, q, s) ==
    Dict(Field(K_intent, i) @@ Field(K_query, q) @@ Field(K_spotify_command, s))

\* Every JSON object the model may emit, over the choices above.
Commands ==
    {MkCommand(i, q, s) :
        i \in IntentChoices, q \in QueryChoices, s \in SpotifyCommandChoices}

\* JSON values that are not objects.
NonObjects ==
    {None, Num(<<"5">>), Str(<<"h", "i">>), Str(K_intent), List(<<>>), List(<<Str(K_intent)>>)}

\* Runs of whitespace and prose around a completion.
Pads == UNION {[1..n -> {T_ws, T_prose}] : n \in 0..MaxPad}

PaddedValues ==
    {MkCommand(Str(CMD_WEBSITE), Str(SampleQuery), ABSENT),
     MkCommand(Str(CMD_SPOTIFY), ABSENT,
               Dict((K_action :> Str(SPOTIFY_ACTION_PLAY))
                    @@ (K_track_query :> Str(SampleTrack)))),
     MkCommand(ABSENT, Str(SampleQuery), ABSENT)}

\* A text with the key "intent" written twice.
RepeatedKeyText ==
    <<T_lbrace, T_str(K_intent), T_colon, T_str(CMD_NETFLIX), T_comma,
      T_str(K_intent), T_colon, T_str(CMD_WEBSITE), T_rbrace>>

\* The completion texts: every value's text, some of them padded, cut short or
\* doubled, and texts that are no JSON at all.
Completions ==
    {Encode(v) : v \in Commands \cup NonObjects}
    \cup {p \o Encode(v) \o q : v \in PaddedValues, p \in Pads, q \in Pads}
    \cup {SubSeq(Encode(v), 1, n) : v \in PaddedValues, n \in {0, 1, 4, 5}}
    \cup {Encode(v) \o Encode(v) : v \in PaddedValues}
    \cup {RepeatedKeyText, <<T_prose>>, <<T_ws>>}

\* The request's outcomes.  requests.post raises ConnectionError or Timeout,
\* raise_for_status raises HTTPError; response.json() raises a JSONDecodeError
\* that is a json.JSONDecodeError (requests >= 2.27, or the standard decoder) or
\* only a ValueError (older requests with simplejson); otherwise it returns the
\* decoded body.
TransportFailures == {"ConnectionError", "Timeout", "HTTPError"}
BodyFailures == {"BodyJSONDecodeError", "BodyValueError"}
Outcome(kind, body) == [kind |-> kind, body |-> body]
OutcomesOf(texts) ==
    {Outcome(k, None) : k \in TransportFailures \cup BodyFailures}
    \cup {Outcome("ok", b) : b \in {List(<<>>), Dict(<<>>), Dict(K_response :> None)}}
    \cup {Outcome("ok", Dict(K_response :> Text(c))) : c \in texts}
LLMOutcomes == OutcomesOf(Completions)

\* ------------------------------------------------------------ parse_command
Return(v) == [raised |-> FALSE, exc |-> "", value |-> v]
Raise(e) == [raised |-> TRUE, exc |-> e, value |-> None]

\* llm.py:143, the result when the decoded value holds no "intent".
MissingIntentResult(input) ==
    Dict((K_intent :> Str(CMD_UNKNOWN)) @@ (K_query :> Str(input)))

\* A decode error answered with the marker of the other except clause.
DecodeErrorResult_Marker(input) ==
    Dict((K_intent :> Str(CMD_UNKNOWN)) @@ (K_query :> Str(ConnectionErrorText)))

\* llm.py:148-150, except json.JSONDecodeError.
DecodeErrorResult(input) ==
    Dict((K_intent :> Str(CMD_UNKNOWN)) @@ (K_query :> Str(input)))

\* A transport failure answered with an empty query.
RequestErrorResult_Empty ==
    Dict((K_intent :> Str(CMD_UNKNOWN)) @@ (K_query :> Str(<<>>)))

\* llm.py:152-154, except requests.RequestException.
RequestErrorResult ==
    Dict((K_intent :> Str(CMD_UNKNOWN)) @@ (K_query :> Str(ConnectionErrorText)))

\* llm.py:141, `"intent" not in parsed_json`: key lookup in a dict, membership in a
\* list, substring in a str, TypeError for anything else.
IntentIn(x) ==
    CASE x.t = "dict" -> IF K_intent \in DOMAIN x.m THEN "yes" ELSE "no"
      [] x.t = "list" ->
           IF \E i \in 1..Len(x.xs) : x.xs[i] = Str(K_intent) THEN "yes" ELSE "no"
      [] x.t = "str" -> IF IsSubstring(K_intent, x.s) THEN "yes" ELSE "no"
      [] OTHER -> "TypeError"

\* An accepted object normalised on the way out: a missing query is filled in.
AcceptedResult_Filled(parsed_json) ==
    IF parsed_json.t = "dict" /\ K_query \notin DOMAIN parsed_json.m
    THEN Dict(parsed_json.m @@ (K_query :> Str(<<>>)))
    ELSE parsed_json

\* llm.py:145-146, the value returned when "intent" is found.
AcceptedResult(parsed_json) == parsed_json

\* llm.py:133-150, from the decoded response body on.
ParseBody(input, api_response) ==
    IF api_response.t # "dict" THEN Raise("AttributeError")       \* no .get
    ELSE LET completion == Get(api_response, K_response, Text(<<>>)) IN
         IF completion.t # "str" THEN Raise("AttributeError")      \* no .strip
         ELSE LET llm_text_output == strip(completion.lex)
                  decoded == json_loads(llm_text_output)
              IN  IF ~decoded.ok THEN Return(DecodeErrorResult(input))
                  ELSE LET has == IntentIn(decoded.val) IN
                       IF has = "TypeError" THEN Raise("TypeError")
                       ELSE IF has = "no" THEN Return(MissingIntentResult(input))
                       ELSE Return(AcceptedResult(decoded.val))

\* parse_command(user_input) when the request ends with outcome r.  A
\* JSONDecodeError raised by response.json() enters the handler of line 148, which
\* reads llm_text_output before it was ever bound.
parse_command(input, r) ==
    CASE r.kind \in TransportFailures -> Return(RequestErrorResult)
      [] r.kind = "BodyJSONDecodeError" -> Raise("UnboundLocalError")
      [] r.kind = "BodyValueError" -> Raise("JSONDecodeError")
      [] r.kind = "ok" -> ParseBody(input, r.body)

\* ------------------------------------------------------------ external calls
\* One entry of `calls`: the operation, the device and the item or flag it was
\* given (Python values), and how it ended.
Call(op, dev, item, res) == [op |-> op, dev |-> dev, item |-> item, res |-> res]

\* --------------------------------------------------------------------- Init
NoCommand == None
NoResponse == Outcome("none", None)
CacheStates == {"missing", "token"}
SettingsStates == {"missing", "queue", "play_direct", "nokey", "invalid"}

\* flask_server.py:66-182: no request of the dashboard is being served.  The
\* record holds the route of the latest request, its argument, the position in
\* set_play_behavior, the reply, the default behaviour the index page shows and
\* the media-service calls of spotify_action.
WebIdle ==
    [route |-> "", pc |-> "idle", behavior |-> "", action_type |-> <<>>, reply |-> "none",
     shown |-> None, calls |-> <<>>]

globals == <<sp, spotify_oauth, cache_file, settings_file, credentials>>
files == <<cache_file, settings_file, credentials>>
locals == <<action, track_query, devices, device_id, settings, final_action, tries>>

\* What the process holds in memory when it starts (and nothing more once it ended).
FreshMemory(p, o) ==
    /\ pc' = p
    /\ response' = NoResponse
    /\ parsed' = Return(NoCommand)
    /\ command_data' = NoCommand
    /\ sp' = None
    /\ spotify_oauth' = None
    /\ action' = None
    /\ track_query' = None
    /\ devices' = <<>>
    /\ device_id' = None
    /\ settings' = None
    /\ final_action' = None
    /\ tries' = 0
    /\ calls' = <<>>
    /\ out' = o
    /\ invoked' = <<>>
    /\ web' = WebIdle

Init ==
    /\ pc = "prompt"
    /\ user_input = <<>>
    /\ response = NoResponse
    /\ parsed = Return(NoCommand)
    /\ command_data = NoCommand
    /\ sp = None
    /\ spotify_oauth = None
    /\ cache_file \in CacheStates
    /\ settings_file \in SettingsStates
    /\ credentials \in BOOLEAN
    /\ action = None
    /\ track_query = None
    /\ devices = <<>>
    /\ device_id = None
    /\ settings = None
    /\ final_action = None
    /\ tries = 0
    /\ calls = <<>>
    /\ out = <<>>
    /\ invoked = <<>>
    /\ web = WebIdle

\* ------------------------------------------------------------------ run_cli
\* str.strip() and str.lower() on a line of characters.
RECURSIVE lstrip_chars(_)
lstrip_chars(s) == IF s # <<>> /\ Head(s) = " " THEN lstrip_chars(Tail(s)) ELSE s

RECURSIVE rstrip_chars(_)
rstrip_chars(s) ==
    IF s # <<>> /\ s[Len(s)] = " " THEN rstrip_chars(SubSeq(s, 1, Len(s) - 1)) ELSE s

strip_chars(s) == rstrip_chars(lstrip_chars(s))

UpperCase == ("E" :> "e") @@ ("Q" :> "q") @@ ("X" :> "x") @@ ("I" :> "i")
             @@ ("T" :> "t") @@ ("U" :> "u")
lower(s) == [i \in 1..Len(s) |-> IF s[i] \in DOMAIN UpperCase THEN UpperCase[s[i]] ELSE s[i]]

ExitWords == {<<"e", "x", "i", "t">>, <<"q", "u", "i", "t">>}

\* The loop's except clause taken for an error that ends the process.
LoopCatches_Exits ==
    /\ pc' = "exited"
    /\ out' = Append(out, "critical_error")

\* main.py:121-122: an exception that reaches the loop is logged and the loop goes on.
LoopCatches ==
    /\ pc' = "prompt"
    /\ out' = Append(out, "critical_error")

\* main.py:99-109.  The line is read and stripped; an empty line is skipped, exit
\* and quit end the process, anything else goes to parse_command.  The history of
\* the previous iteration is dropped.
ReadInput(lines) ==
    /\ pc = "prompt"
    /\ \E line \in lines :
         LET stripped == strip_chars(line) IN
         IF stripped # <<>> /\ lower(stripped) \in ExitWords
         THEN FreshMemory("exited", <<"goodbye">>) /\ user_input' = stripped
         ELSE /\ user_input' = stripped
              /\ pc' = IF stripped = <<>> THEN "prompt" ELSE "parse"
              /\ response' = NoResponse
              /\ parsed' = Return(NoCommand)
              /\ action' = None
              /\ track_query' = None
              /\ devices' = <<>>
              /\ device_id' = None
              /\ settings' = None
              /\ final_action' = None
              /\ tries' = 0
              /\ calls' = <<>>
              /\ out' = <<>>
              /\ invoked' = <<>>
              /\ UNCHANGED <<command_data, sp, spotify_oauth, web>>
    /\ UNCHANGED files

\* main.py:99 and 121-122: input() raises (EOFError on a closed stdin); the loop's
\* except clause logs it and the loop reads again.  user_input keeps its value.
ReadFails ==
    /\ pc = "prompt"
    /\ pc' = "prompt"
    /\ response' = NoResponse
    /\ parsed' = Return(NoCommand)
    /\ action' = None
    /\ track_query' = None
    /\ devices' = <<>>
    /\ device_id' = None
    /\ settings' = None
    /\ final_action' = None
    /\ tries' = 0
    /\ calls' = <<>>
    /\ out' = <<"critical_error">>
    /\ invoked' = <<>>
    /\ UNCHANGED <<user_input, command_data, sp, spotify_oauth, files, web>>

\* main.py:118-120: Ctrl-C, wherever the thread stands, ends the process.
Interrupt ==
    /\ pc # "exited"
    /\ FreshMemory("exited", <<"force_quit">>)
    /\ user_input' = <<>>
    /\ UNCHANGED files

\* main.py:111 with llm.py:105-154: one POST, then the Command or the exception.
ParseCommand(outcomes) ==
    /\ pc = "parse"
    /\ \E r \in outcomes :
         LET result == parse_command(user_input, r) IN
         /\ response' = r
         /\ parsed' = result
         /\ calls' = Append(calls, Call("llm_post", None, None, r.kind))
         /\ IF result.raised
            THEN LoopCatches /\ UNCHANGED command_data
            ELSE /\ pc' = "dispatch"
                 /\ command_data' = result.value
                 /\ UNCHANGED out
    /\ UNCHANGED <<user_input, globals, locals, invoked, web>>

\* -------------------------------------------------------- main.py handlers
\* COMMAND_HANDLERS (main.py:61-66), and the default of line 115.
COMMAND_HANDLERS ==
    (CMD_SPOTIFY :> "handle_spotify_command") @@ (CMD_NETFLIX :> "handle_netflix")
    @@ (CMD_WEBSITE :> "handle_website") @@ (CMD_UNKNOWN :> "handle_unknown")

DefaultHandler == "handle_unknown"

\* A lookup whose default is the first handler of the table.
HandlerFor_FirstDefault(intent) ==
    IF intent.t = "str" /\ intent.s \in DOMAIN COMMAND_HANDLERS
    THEN COMMAND_HANDLERS[intent.s]
    ELSE "handle_spotify_command"

\* COMMAND_HANDLERS.get(intent, handle_unknown), for a hashable intent.
HandlerFor(intent) ==
    IF intent.t = "str" /\ intent.s \in DOMAIN COMMAND_HANDLERS
    THEN COMMAND_HANDLERS[intent.s]
    ELSE DefaultHandler

\* main.py:113-116.  command_data.get fails on a value that is no dict and the
\* lookup fails on an unhashable intent; both reach the loop's except clause.
Dispatch ==
    /\ pc = "dispatch"
    /\ IF command_data.t # "dict"
       THEN LoopCatches /\ UNCHANGED invoked
       ELSE LET intent == Get(command_data, K_intent, Str(CMD_UNKNOWN)) IN
            IF ~Hashable(intent)
            THEN LoopCatches /\ UNCHANGED invoked
            ELSE /\ pc' = HandlerFor(intent)
                 /\ invoked' = Append(invoked, HandlerFor(intent))
                 /\ UNCHANGED out
    /\ UNCHANGED <<user_input, response, parsed, command_data, globals, locals, calls,
                   web>>

\* str(x) as an f-string writes it.
Format(x) ==
    CASE x.t = "str" -> x.s
      [] x.t = "NoneType" -> <<"N", "o", "n", "e">>
      [] x.t = "int" -> x.n
      [] OTHER -> <<"?">>

NetflixSearchURL ==
    <<"h", "t", "t", "p", "s", ":", "/", "/", "w", "w", "w", ".", "n", "e", "t", "f",
      "l", "i", "x", ".", "c", "o", "m", "/", "s", "e", "a", "r", "c", "h", "?", "q", "=">>
NetflixDefaultQuery ==
    <<"N", "e", "t", "f", "l", "i", "x", " ", "s", "e", "a", "r", "c", "h">>
WebsiteDefaultQuery == <<"W", "e", "b", "s", "i", "t", "e", " ", "U", "R", "L">>
HttpPrefix == <<"h", "t", "t", "p", ":", "/", "/">>
HttpsPrefix == <<"h", "t", "t", "p", "s", ":", "/", "/">>

\* main.py:39, the URL handle_netflix opens.
NetflixURL(query) == NetflixSearchURL \o Format(query)

\* Only the https scheme is taken for a scheme.
WebsiteURL_HttpsOnly(q) == IF ~StartsWith(q, HttpsPrefix) THEN HttpsPrefix \o q ELSE q

\* main.py:47-48, the URL handle_website opens for a str query.
WebsiteURL(q) ==
    IF ~(StartsWith(q, HttpPrefix) \/ StartsWith(q, HttpsPrefix))
    THEN HttpsPrefix \o q
    ELSE q

\* main.py:33-39
handle_netflix ==
    /\ pc = "handle_netflix"
    /\ LET query == Get(command_data, K_query, Str(NetflixDefaultQuery)) IN
       /\ out' = Append(out, "[NETFLIX]")
       /\ calls' = Append(calls, Call("browser_open", None, Str(NetflixURL(query)), "ok"))
    /\ pc' = "prompt"
    /\ UNCHANGED <<user_input, response, parsed, command_data, globals, locals, invoked,
                   web>>

\* main.py:42-50.  query.startswith fails on a query that is no str.
handle_website ==
    /\ pc = "handle_website"
    /\ LET query == Get(command_data, K_query, Str(WebsiteDefaultQuery)) IN
       IF query.t # "str"
       THEN /\ out' = out \o <<"[BROWSER]", "critical_error">>
            /\ UNCHANGED calls
       ELSE /\ out' = Append(out, "[BROWSER]")
            /\ calls' = Append(calls,
                               Call("browser_open", None, Str(WebsiteURL(query.s)), "ok"))
    /\ pc' = "prompt"
    /\ UNCHANGED <<user_input, response, parsed, command_data, globals, locals, invoked,
                   web>>

\* main.py:53-58
handle_unknown ==
    /\ pc = "handle_unknown"
    /\ out' = Append(out, "[SYSTEM]")
    /\ pc' = "prompt"
    /\ UNCHANGED <<user_input, response, parsed, command_data, globals, locals,
                   calls, invoked, web>>

\* ------------------------------------------------------------------ spot.py
\* Variables no step of the Spotify handler writes.
loopVars == <<user_input, response, parsed, command_data, invoked, web>>

Client == [t |-> "Spotify"]
OAuth == [t |-> "SpotifyOAuth"]
AuthorizeURL == <<"a", "u", "t", "h">>
TrackUri == <<"u", "r", "i">>

\* How a media-service call can fail: a SpotifyException whose message names no
\* active device, an invalid or expired access token, a violated restriction or
\* something else, or an exception of another class.
SpotifyErrors == {"no_active_device", "token_expired", "restricted", "api_error"}
ServiceErrors == SpotifyErrors \cup {"exception"}

\* spot.py:38-43 load_settings: the file's content, the default when it is missing,
\* a JSONDecodeError when it is no JSON.
load_settings(file) ==
    CASE file = "missing" -> Return(Dict(<<"default_play_behavior">> :> Str(<<"queue">>)))
      [] file = "queue" -> Return(Dict(<<"default_play_behavior">> :> Str(<<"queue">>)))
      [] file = "play_direct" ->
           Return(Dict(<<"default_play_behavior">> :> Str(<<"play_direct">>)))
      [] file = "nokey" -> Return(Dict(<<>>))
      [] file = "invalid" -> Raise("JSONDecodeError")
      [] file = "empty" -> Raise("JSONDecodeError")

\* The action carried out when the setting is never consulted.
FinalAction_NoSetting(act, loaded) == act

\* spot.py:171-178: the action carried out for a matched track.
FinalAction(act, loaded) ==
    IF act = Str(SPOTIFY_ACTION_PLAY)
       /\ Get(loaded, <<"default_play_behavior">>, None) = Str(<<"queue">>)
    THEN Str(SPOTIFY_ACTION_QUEUE)
    ELSE act

\* spot.py:259-275: the line printed for a failed call of the action.
HandlerErrorLine(kind) ==
    CASE kind = "no_active_device" -> "error_no_active_device"
      [] kind = "token_expired" -> "error_token_expired"
      [] kind = "restricted" -> "error_restriction_violated"
      [] kind = "api_error" -> "error_api"
      [] kind = "exception" -> "error_unexpected"

\* No failure makes the handler drop the token.
InvalidatesToken_Never(kind) == FALSE

\* Every SpotifyException taken for an expired token.
InvalidatesToken_Any(kind) == kind \in SpotifyErrors

\* spot.py:263, 146: the failures that make the handler drop the token.
InvalidatesToken(kind) == kind = "token_expired"

\* spot.py:144-157: the line printed for a failed call of the device resolution.
DeviceErrorLine(kind) ==
    CASE kind = "token_expired" -> "device_token_expired"
      [] kind \in SpotifyErrors \ {"token_expired"} -> "device_api_error"
      [] kind = "exception" -> "device_unexpected_error"

\* The handle kept whatever the failure.
HandleAfter_Kept(kind, handle) == handle

\* spot.py:151-152 and 267-268: the client handle after a failed call.
HandleAfter(kind, handle) == IF InvalidatesToken(kind) THEN None ELSE handle

\* spot.py:259-275: a call of the action failed; the handler reports and returns.
ActionFails(call) ==
    /\ calls' = Append(calls, call)
    /\ out' = Append(out, HandlerErrorLine(call.res))
    /\ cache_file' = IF InvalidatesToken(call.res) THEN "missing" ELSE cache_file
    /\ sp' = HandleAfter(call.res, sp)
    /\ pc' = "prompt"

\* spot.py:144-159 and 242-244: a call of the device resolution failed;
\* get_active_device_id returns None and the handler reports and returns.
DeviceFails(newCalls) ==
    LET kind == newCalls[Len(newCalls)].res IN
    /\ calls' = calls \o newCalls
    /\ out' = out \o <<DeviceErrorLine(kind), "no_suitable_device">>
    /\ cache_file' = IF InvalidatesToken(kind) THEN "missing" ELSE cache_file
    /\ sp' = HandleAfter(kind, sp)
    /\ pc' = "prompt"

\* spot.py:221-234: the header, then the two presence checks.  .get on a
\* spotify_command that is truthy and no dict raises AttributeError.
SpotifyValidate ==
    /\ pc = "handle_spotify_command"
    /\ LET d == Get(command_data, K_spotify_command, None) IN
       IF ~Truthy(d)
       THEN /\ out' = out \o <<"[SPOTIFY]", "missing_spotify_command">>
            /\ pc' = "prompt"
            /\ UNCHANGED <<action, track_query>>
       ELSE IF d.t # "dict"
       THEN /\ out' = out \o <<"[SPOTIFY]", "critical_error">>
            /\ pc' = "prompt"
            /\ UNCHANGED <<action, track_query>>
       ELSE /\ action' = Get(d, K_action, None)
            /\ track_query' = Get(d, K_track_query, None)
            /\ IF ~Truthy(Get(d, K_action, None))
               THEN /\ out' = out \o <<"[SPOTIFY]", "missing_action">>
                    /\ pc' = "prompt"
               ELSE /\ out' = Append(out, "[SPOTIFY]")
                    /\ pc' = "get_spotify_client"
    /\ UNCHANGED <<loopVars, globals, devices, device_id, settings, final_action,
                   tries, calls>>

\* The prompt taken whenever the handle is empty, whatever the token cache holds.
AcquisitionPath_NoCache(handle, cache) == IF Truthy(handle) THEN "cached" ELSE "flow"

\* spot.py:70-75: the way get_spotify_client comes to a client: the cached handle,
\* the cached token, or the interactive flow.
AcquisitionPath(handle, cache) ==
    IF Truthy(handle) THEN "cached"
    ELSE IF cache = "token" THEN "token"
    ELSE "flow"

\* spot.py:58-80 and 100-103 (called at 236), up to the prompt for the redirected
\* URL.  SpotifyOAuth(...) raises without credentials and get_cached_token may
\* raise while refreshing; neither is caught by the handler.
GetSpotifyClient ==
    /\ pc = "get_spotify_client"
    /\ IF spotify_oauth = None /\ ~credentials
       THEN /\ calls' = Append(calls,
                               Call("get_spotify_client", None, None, "SpotifyOauthError"))
            /\ LoopCatches
            /\ UNCHANGED <<sp, spotify_oauth>>
       ELSE /\ spotify_oauth' = OAuth
            /\ IF AcquisitionPath(sp, cache_file) = "cached"
               THEN /\ calls' = Append(calls,
                                       Call("get_spotify_client", None, None, "cached"))
                    /\ pc' = "get_active_device_id"
                    /\ UNCHANGED <<sp, out>>
               ELSE IF AcquisitionPath(sp, cache_file) = "token"
               THEN \E r \in {"token", "SpotifyOauthError"} :
                      /\ calls' = calls \o <<Call("get_spotify_client", None, None, "new"),
                                             Call("get_cached_token", None, None, r)>>
                      /\ IF r = "token"
                         THEN /\ sp' = Client
                              /\ pc' = "get_active_device_id"
                              /\ UNCHANGED out
                         ELSE LoopCatches /\ UNCHANGED sp
               ELSE /\ calls' = calls \o <<Call("get_spotify_client", None, None, "new"),
                                           Call("get_cached_token", None, None, "none"),
                                           Call("browser_open", None, Str(AuthorizeURL), "ok")>>
                    /\ out' = Append(out, "auth_prompt")
                    /\ pc' = "auth_input"
                    /\ UNCHANGED sp
    /\ UNCHANGED <<loopVars, files, locals>>

\* spot.py:83-103 and 237-239: the redirected URL is read and exchanged for a token.
\* input() stands outside the try of spot.py:85 and the call of spot.py:236 outside
\* the try of spot.py:246: its EOFError on a closed stdin reaches the loop.
AuthInput ==
    /\ pc = "auth_input"
    /\ \E r \in {"token", "error", "none", "EOFError"} :
         /\ calls' = IF r = "EOFError"
                     THEN Append(calls, Call("input", None, None, "EOFError"))
                     ELSE calls \o <<Call("input", None, None, "redirect_url"),
                                     Call("get_access_token", None, None, r)>>
         /\ CASE r = "token" ->
                   /\ cache_file' = "token"
                   /\ sp' = Client
                   /\ pc' = "get_active_device_id"
                   /\ UNCHANGED out
              [] r = "error" ->
                   /\ out' = out \o <<"auth_failed", "not_connected">>
                   /\ pc' = "prompt"
                   /\ UNCHANGED <<cache_file, sp>>
              [] r = "none" ->
                   /\ out' = Append(out, "not_connected")
                   /\ pc' = "prompt"
                   /\ UNCHANGED <<cache_file, sp>>
              [] r = "EOFError" ->
                   /\ LoopCatches
                   /\ UNCHANGED <<cache_file, sp>>
    /\ UNCHANGED <<loopVars, spotify_oauth, settings_file, credentials, locals>>

\* The ids of the devices, by position in the list.
DeviceId(i) == Str(<<"d", CASE i = 1 -> "1" [] i = 2 -> "2" [] i = 3 -> "3" [] OTHER -> "n">>)

\* The device lists the service may return.
DeviceLists ==
    UNION {{[i \in 1..n |-> [id |-> DeviceId(i), is_active |-> f[i]]] :
              f \in [1..n -> BOOLEAN]} : n \in 0..MaxDevices}

\* The first device of the list taken whenever some device is active.
FirstActive_Head(ds) ==
    IF \E i \in 1..Len(ds) : ds[i].is_active THEN ds[1].id ELSE None

\* spot.py:112-116: the id of the first active device, None when there is none.
FirstActive(ds) ==
    IF \E i \in 1..Len(ds) : ds[i].is_active
    THEN ds[CHOOSE i \in 1..Len(ds) :
               ds[i].is_active /\ \A j \in 1..(i - 1) : ~ds[j].is_active].id
    ELSE None

\* The empty list taken for a list to choose from.
DeviceBranch_NoEmpty(ds) == IF FirstActive(ds) # None THEN "active" ELSE "choose"

\* spot.py:114, 117, 140: what get_active_device_id does with the list.
DeviceBranch(ds) ==
    IF FirstActive(ds) # None THEN "active"
    ELSE IF ds # <<>> THEN "choose"
    ELSE "none"

\* spot.py:110-121 and 140-159 (called at 241): the device list is fetched.
GetDevices ==
    /\ pc = "get_active_device_id"
    /\ \/ \E kind \in ServiceErrors :
            /\ DeviceFails(<<Call("devices", None, None, kind)>>)
            /\ UNCHANGED <<devices, device_id>>
       \/ \E ds \in DeviceLists :
            /\ calls' = Append(calls, Call("devices", None, None, "ok"))
            /\ devices' = ds
            /\ UNCHANGED <<cache_file, sp>>
            /\ IF DeviceBranch(ds) = "active"
               THEN /\ device_id' = FirstActive(ds)
                    /\ pc' = "perform_action"
                    /\ UNCHANGED out
               ELSE IF DeviceBranch(ds) = "choose"
               THEN /\ out' = Append(out, "device_list")
                    /\ pc' = "choose_device"
                    /\ UNCHANGED device_id
               ELSE /\ out' = out \o <<"no_devices_found", "no_suitable_device">>
                    /\ pc' = "prompt"
                    /\ UNCHANGED device_id
    /\ UNCHANGED <<loopVars, spotify_oauth, settings_file, credentials, action,
                   track_query, settings, final_action, tries>>

\* What the user may answer to the device prompt: s, a number, anything else.
Choices ==
    {[kind |-> "s", n |-> 0], [kind |-> "text", n |-> 0]}
    \cup {[kind |-> "int", n |-> k] : k \in 0..(MaxDevices + 1)}

\* spot.py:122-139: one answer to the device prompt.
ChooseDevice ==
    /\ pc = "choose_device"
    /\ \E choice \in Choices :
         LET asked == Call("input", None, None, choice.kind)
             device_index == choice.n - 1
         IN
         CASE choice.kind = "s" ->
                /\ calls' = Append(calls, asked)
                /\ out' = out \o <<"skipping", "no_suitable_device">>
                /\ pc' = "prompt"
                /\ UNCHANGED <<cache_file, sp, device_id, tries>>
           [] choice.kind = "text" ->
                /\ tries < MaxTries
                /\ calls' = Append(calls, asked)
                /\ out' = Append(out, "invalid_input")
                /\ tries' = tries + 1
                /\ UNCHANGED <<pc, cache_file, sp, device_id>>
           [] choice.kind = "int" /\ ~(0 <= device_index /\ device_index < Len(devices)) ->
                /\ tries < MaxTries
                /\ calls' = Append(calls, asked)
                /\ out' = Append(out, "invalid_choice")
                /\ tries' = tries + 1
                /\ UNCHANGED <<pc, cache_file, sp, device_id>>
           [] choice.kind = "int" /\ 0 <= device_index /\ device_index < Len(devices) ->
                LET selected == devices[device_index + 1].id IN
                \E res \in {"ok"} \cup ServiceErrors :
                  /\ UNCHANGED tries
                  /\ IF res = "ok"
                     THEN /\ calls' = calls \o <<asked, Call("transfer_playback", selected,
                                                              Bool(TRUE), "ok")>>
                          /\ device_id' = selected
                          /\ pc' = "perform_action"
                          /\ UNCHANGED <<out, cache_file, sp>>
                     ELSE /\ DeviceFails(<<asked, Call("transfer_playback", selected,
                                                        Bool(TRUE), res)>>)
                          /\ UNCHANGED device_id
    /\ UNCHANGED <<loopVars, spotify_oauth, settings_file, credentials, action,
                   track_query, devices, settings, final_action>>

\* Only a missing track query is refused, an empty one passes.
LacksTrackQuery_OnlyNone(tq) == tq = None

\* spot.py:248: a play or queue action lacks its track query.
LacksTrackQuery(tq) == ~Truthy(tq)

\* spot.py:246-257: the branch on the action.
PerformAction ==
    /\ pc = "perform_action"
    /\ IF action \in {Str(SPOTIFY_ACTION_PLAY), Str(SPOTIFY_ACTION_QUEUE)}
       THEN IF LacksTrackQuery(track_query)
            THEN /\ out' = Append(out, "requires_track_query")
                 /\ pc' = "prompt"
            ELSE /\ pc' = "search"
                 /\ UNCHANGED out
       ELSE IF action \in {Str(SPOTIFY_ACTION_SKIP_NEXT), Str(SPOTIFY_ACTION_SKIP_PREVIOUS)}
       THEN pc' = "skip" /\ UNCHANGED out
       ELSE IF action \in {Str(SPOTIFY_ACTION_PAUSE), Str(SPOTIFY_ACTION_RESUME)}
       THEN pc' = "playback_control" /\ UNCHANGED out
       ELSE /\ out' = Append(out, "unknown_action")
            /\ pc' = "prompt"
    /\ UNCHANGED <<loopVars, globals, locals, calls>>

\* The setting consulted for a queue action as well.
ReadsSetting_Always(act) == act \in {Str(SPOTIFY_ACTION_PLAY), Str(SPOTIFY_ACTION_QUEUE)}

\* spot.py:172: the action for which the setting is loaded.
ReadsSetting(act) == act = Str(SPOTIFY_ACTION_PLAY)

\* spot.py:163-178 and 196-197: the catalogue search, and for a match the choice
\* between queueing and playing (load_settings may raise; `except Exception`
\* of line 273 catches it).
Search ==
    /\ pc = "search"
    /\ \/ \E kind \in ServiceErrors :
            /\ ActionFails(Call("search", None, track_query, kind))
            /\ UNCHANGED <<settings, final_action>>
       \/ /\ calls' = Append(calls, Call("search", None, track_query, "miss"))
          /\ out' = Append(out, "no_track_found")
          /\ pc' = "prompt"
          /\ UNCHANGED <<cache_file, sp, settings, final_action>>
       \/ /\ UNCHANGED <<cache_file, sp>>
          /\ IF ReadsSetting(action)
             THEN LET loaded == load_settings(settings_file) IN
                  IF loaded.raised
                  THEN /\ calls' = calls \o <<Call("search", None, track_query, "hit"),
                                              Call("load_settings", None, None, loaded.exc)>>
                       /\ out' = Append(out, "error_unexpected")
                       /\ pc' = "prompt"
                       /\ UNCHANGED <<settings, final_action>>
                  ELSE /\ calls' = calls \o <<Call("search", None, track_query, "hit"),
                                              Call("load_settings", None, None, "ok")>>
                       /\ settings' = loaded.value
                       /\ final_action' = FinalAction(action, loaded.value)
                       /\ IF FinalAction(action, loaded.value) = Str(SPOTIFY_ACTION_QUEUE)
                          THEN /\ out' = Append(out, "note_play_as_queue")
                               /\ pc' = "add_to_queue"
                          ELSE /\ out' = Append(out, "note_play_directly")
                               /\ pc' = "start_playback_track"
             ELSE /\ calls' = Append(calls, Call("search", None, track_query, "hit"))
                  /\ final_action' = FinalAction(action, None)
                  /\ pc' = "add_to_queue"
                  /\ UNCHANGED <<settings, out>>
    /\ UNCHANGED <<loopVars, spotify_oauth, settings_file, credentials, action,
                   track_query, devices, device_id, tries>>

\* A call of the action that ends the invocation when it succeeds.
LastCall(op, item, line) ==
    /\ \/ \E kind \in ServiceErrors : ActionFails(Call(op, device_id, item, kind))
       \/ /\ calls' = Append(calls, Call(op, device_id, item, "ok"))
          /\ out' = IF line = "" THEN out ELSE Append(out, line)
          /\ pc' = "prompt"
          /\ UNCHANGED <<cache_file, sp>>
    /\ UNCHANGED <<loopVars, spotify_oauth, settings_file, credentials, locals>>

\* spot.py:180-182
AddToQueue ==
    /\ pc = "add_to_queue"
    /\ \/ \E kind \in ServiceErrors :
            ActionFails(Call("add_to_queue", device_id, Str(TrackUri), kind))
       \/ /\ calls' = Append(calls, Call("add_to_queue", device_id, Str(TrackUri), "ok"))
          /\ out' = Append(out, "added_to_queue")
          /\ pc' = "current_playback"
          /\ UNCHANGED <<cache_file, sp>>
    /\ UNCHANGED <<loopVars, spotify_oauth, settings_file, credentials, locals>>

\* spot.py:183-185
StartPlaybackTrack ==
    /\ pc = "start_playback_track"
    /\ LastCall("start_playback", Str(TrackUri), "now_playing")

\* Only a missing playback state taken for nothing playing.
NothingPlaying_OnlyNone(state) == state = "none"

\* spot.py:191: not current_playback or not current_playback.get('is_playing').
NothingPlaying(state) == state \in {"none", "paused"}

\* spot.py:189-195: after queueing, the playback state decides whether to start.
CurrentPlayback ==
    /\ pc = "current_playback"
    /\ \/ \E kind \in ServiceErrors :
            ActionFails(Call("current_playback", None, None, kind))
       \/ \E state \in {"none", "paused", "playing"} :
            /\ calls' = Append(calls, Call("current_playback", None, None, state))
            /\ UNCHANGED <<cache_file, sp>>
            /\ IF NothingPlaying(state)
               THEN /\ out' = Append(out, "note_starting_playback")
                    /\ pc' = "start_playback"
               ELSE /\ out' = Append(out, "note_already_playing")
                    /\ pc' = "prompt"
    /\ UNCHANGED <<loopVars, spotify_oauth, settings_file, credentials, locals>>

\* spot.py:193
StartPlayback ==
    /\ pc = "start_playback"
    /\ LastCall("start_playback", None, "")

\* The two skips taken for one another.
TransportOp_Swapped(act) ==
    CASE act = Str(SPOTIFY_ACTION_SKIP_NEXT) -> "previous_track"
      [] act = Str(SPOTIFY_ACTION_SKIP_PREVIOUS) -> "next_track"
      [] act = Str(SPOTIFY_ACTION_PAUSE) -> "pause_playback"
      [] act = Str(SPOTIFY_ACTION_RESUME) -> "start_playback"

\* spot.py:201-205 and 210-214: the operation of each transport action.
TransportOp(act) ==
    CASE act = Str(SPOTIFY_ACTION_SKIP_NEXT) -> "next_track"
      [] act = Str(SPOTIFY_ACTION_SKIP_PREVIOUS) -> "previous_track"
      [] act = Str(SPOTIFY_ACTION_PAUSE) -> "pause_playback"
      [] act = Str(SPOTIFY_ACTION_RESUME) -> "start_playback"

\* spot.py:199-206
Skip ==
    /\ pc = "skip"
    /\ IF action = Str(SPOTIFY_ACTION_SKIP_NEXT)
       THEN LastCall(TransportOp(action), None, "skipped_next")
       ELSE LastCall(TransportOp(action), None, "skipped_previous")

\* spot.py:208-215
PlaybackControl ==
    /\ pc = "playback_control"
    /\ IF action = Str(SPOTIFY_ACTION_PAUSE)
       THEN LastCall(TransportOp(action), None, "paused")
       ELSE LastCall(TransportOp(action), None, "resumed")

\* ------------------------------------------------------------ the whole loop
\* The completions the loop is run on: every intent with every query, and the
\* Spotify intent with every spotify_command; values that are no object; texts
\* that are no JSON.
LoopCommands ==
    {MkCommand(i, q, ABSENT) : i \in IntentChoices, q \in QueryChoices}
    \cup {MkCommand(Str(CMD_SPOTIFY), ABSENT, s) : s \in SpotifyCommandChoices}

LoopCompletions ==
    {Encode(v) : v \in LoopCommands \cup NonObjects}
    \cup {<<T_prose>> \o Encode(v) : v \in PaddedValues}

LoopOutcomes == OutcomesOf(LoopCompletions)

\* The lines the loop is run on: an empty one, an utterance, a quit.
LoopLines == {<<" ">>, <<" ", "g", "o", " ">>, <<"Q", "u", "i", "t", " ">>}

Next ==
    \/ ReadInput(LoopLines)
    \/ ReadFails
    \/ Interrupt
    \/ ParseCommand(LoopOutcomes)
    \/ Dispatch
    \/ handle_netflix
    \/ handle_website
    \/ handle_unknown
    \/ SpotifyValidate
    \/ GetSpotifyClient
    \/ AuthInput
    \/ GetDevices
    \/ ChooseDevice
    \/ PerformAction
    \/ Search
    \/ AddToQueue
    \/ StartPlaybackTrack
    \/ CurrentPlayback
    \/ StartPlayback
    \/ Skip
    \/ PlaybackControl

Spec == Init /\ [][Next]_vars

\* ------------------------------------------------------------- the dashboard
\* The variables of the CLI thread.
cliVars ==
    <<pc, user_input, response, parsed, command_data, sp, spotify_oauth, cache_file,
      credentials, action, track_query, devices, device_id, settings, final_action,
      tries, calls, out, invoked>>

\* The values a request may carry under "behavior".
WebBehaviors == {"play_direct", "queue", "shuffle"}

\* flask_server.py:29-38 load_settings: as load_settings of spot.py, but a file
\* that is no JSON yields the default.
web_load_settings(file) ==
    IF load_settings(file).raised
    THEN Dict(<<"default_play_behavior">> :> Str(<<"queue">>))
    ELSE load_settings(file).value

\* Every behaviour stored, whatever the request carries.
ValidBehavior_Any(behavior) == TRUE

\* flask_server.py:130: the behaviours set_play_behavior accepts.
ValidBehavior(behavior) == behavior \in {"play_direct", "queue"}

\* flask_server.py:128-133 and 136, with 43: the request is received; a valid
\* behaviour is put into the loaded settings and the file is opened for writing,
\* which empties it; any other behaviour is answered with a failure.  The app is
\* only created with credentials (flask_server.py:57-64).
SetPlayBehaviorBegin ==
    /\ pc # "exited" /\ credentials
    /\ web.pc = "idle"
    /\ \E behavior \in WebBehaviors :
         IF ValidBehavior(behavior)
         THEN /\ web_load_settings(settings_file).t = "dict"
              /\ settings_file' = "empty"
              /\ web' = [WebIdle EXCEPT !.route = "set_play_behavior", !.pc = "saving",
                                         !.behavior = behavior]
         ELSE /\ web' = [WebIdle EXCEPT !.route = "set_play_behavior",
                                         !.behavior = behavior, !.reply = "failure"]
              /\ UNCHANGED settings_file
    /\ UNCHANGED cliVars

\* flask_server.py:44 and 134-135: the settings are written and the request is
\* answered with success.
SetPlayBehaviorSave ==
    /\ pc # "exited" /\ credentials
    /\ web.pc = "saving"
    /\ settings_file' = web.behavior
    /\ web' = [web EXCEPT !.pc = "idle", !.reply = "success"]
    /\ UNCHANGED cliVars

\* The variables of the CLI thread that live in its memory.
coreMemory ==
    <<pc, user_input, response, parsed, command_data, sp, spotify_oauth, credentials,
      action, track_query, devices, device_id, settings, final_action, tries, calls, out,
      invoked>>

\* flask_server.py:93 and 99: the default play behaviour the index page shows.
DashboardDefault(file) ==
    Get(web_load_settings(file), <<"default_play_behavior">>, Str(<<"queue">>))

\* flask_server.py:66-100 index: with a cached token the current playback is
\* asked for; a SpotifyException naming an invalid or expired token removes the
\* token cache; the page shows the connection and the default play behaviour.
\* get_cached_token may raise while refreshing: the request ends with status 500.
Index ==
    /\ pc # "exited" /\ credentials
    /\ web.pc = "idle"
    /\ \E r \in {"ok", "SpotifyOauthError"} \cup ServiceErrors :
         /\ (cache_file # "token") => r = "ok"
         /\ cache_file' = IF cache_file = "token" /\ r = "token_expired"
                          THEN "missing"
                          ELSE cache_file
         /\ web' = [WebIdle EXCEPT
                       !.route = "index",
                       !.reply = CASE r = "SpotifyOauthError" -> "500"
                                   [] cache_file = "token" /\ r = "ok" -> "connected"
                                   [] OTHER -> "not_connected",
                       !.shown = IF r = "SpotifyOauthError" THEN None
                                 ELSE DashboardDefault(settings_file)]
    /\ UNCHANGED <<coreMemory, settings_file>>

\* flask_server.py:107-118 callback: the code is exchanged for a token, which
\* get_access_token writes to the token cache.
Callback ==
    /\ pc # "exited" /\ credentials
    /\ web.pc = "idle"
    /\ \E r \in {"token", "error", "no_code"} :
         /\ cache_file' = IF r = "token" THEN "token" ELSE cache_file
         /\ web' = [WebIdle EXCEPT
                       !.route = "callback",
                       !.reply = CASE r = "token" -> "redirect_index"
                                   [] r = "error" -> "500"
                                   [] r = "no_code" -> "400"]
    /\ UNCHANGED <<coreMemory, settings_file>>

\* flask_server.py:120-125 disconnect_spotify: the token cache is removed.
DisconnectSpotify ==
    /\ pc # "exited" /\ credentials
    /\ web.pc = "idle"
    /\ cache_file' = "missing"
    /\ web' = [WebIdle EXCEPT !.route = "disconnect_spotify", !.reply = "redirect_index"]
    /\ UNCHANGED <<coreMemory, settings_file>>

\* The commands the loop is run on next to the dashboard: one per handler and
\* one per branch of the Spotify handler.
DashboardCommands ==
    {MkCommand(Str(CMD_NETFLIX), Str(SampleQuery), ABSENT),
     MkCommand(Str(CMD_WEBSITE), Str(SampleQuery), ABSENT),
     MkCommand(Str(UndeclaredIntent), ABSENT, ABSENT)}
    \cup {MkCommand(Str(CMD_SPOTIFY), ABSENT,
                    Dict((K_action :> Str(a)) @@ (K_track_query :> Str(SampleTrack)))) :
             a \in {SPOTIFY_ACTION_PLAY, SPOTIFY_ACTION_QUEUE, SPOTIFY_ACTION_SKIP_NEXT,
                    SPOTIFY_ACTION_PAUSE}}

DashboardOutcomes == {Outcome("ok", Dict(K_response :> Text(Encode(v)))) : v \in DashboardCommands}

NextDashboard ==
    \/ ReadInput(LoopLines)
    \/ ReadFails
    \/ Interrupt
    \/ ParseCommand(DashboardOutcomes)
    \/ Dispatch
    \/ handle_netflix
    \/ handle_website
    \/ handle_unknown
    \/ SpotifyValidate
    \/ GetSpotifyClient
    \/ AuthInput
    \/ GetDevices
    \/ ChooseDevice
    \/ PerformAction
    \/ Search
    \/ AddToQueue
    \/ StartPlaybackTrack
    \/ CurrentPlayback
    \/ StartPlayback
    \/ Skip
    \/ PlaybackControl
    \/ SetPlayBehaviorBegin
    \/ SetPlayBehaviorSave

SpecDashboard == Init /\ [][NextDashboard]_vars

\* flask_server.py:138-182 spotify_action.  Without a cached token the request is
\* answered 401 (get_cached_token may raise while refreshing, outside the try:
\* status 500).  The devices are listed; when none is active and the list is not
\* empty, playback is transferred to the first one, before the action type is
\* looked at.  transfer_playback is called with the keyword play: a client library
\* whose parameter has another name raises TypeError there and no request is
\* sent.  Then the call that the action type names is made, or the request is
\* answered 400.  A SpotifyException is answered 403 or 500, any other 500.
SpotifyAction ==
    /\ pc # "exited" /\ credentials
    /\ web.pc = "idle"
    /\ \E action_type \in {SPOTIFY_ACTION_PLAY, SPOTIFY_ACTION_PAUSE, SPOTIFY_ACTION_SKIP_NEXT,
                            SPOTIFY_ACTION_SKIP_PREVIOUS, SPOTIFY_ACTION_QUEUE} :
         LET Reply(cs, r) ==
                 web' = [WebIdle EXCEPT !.route = "spotify_action",
                                        !.action_type = action_type,
                                        !.calls = cs, !.reply = r]
             Failed(kind) ==
                 IF kind \in {"restricted", "no_active_device"} THEN "403" ELSE "500"
             Op == CASE action_type = SPOTIFY_ACTION_PLAY -> "start_playback"
                     [] action_type = SPOTIFY_ACTION_PAUSE -> "pause_playback"
                     [] action_type = SPOTIFY_ACTION_SKIP_NEXT -> "next_track"
                     [] action_type = SPOTIFY_ACTION_SKIP_PREVIOUS -> "previous_track"
                     [] OTHER -> "none"
             Act(cs, dev) ==
                 IF Op = "none" THEN Reply(cs, "400_invalid_action")
                 ELSE \E res \in {"ok"} \cup ServiceErrors :
                        Reply(Append(cs, Call(Op, dev, None, res)),
                              IF res = "ok" THEN "success" ELSE Failed(res))
         IN
         IF cache_file # "token" THEN Reply(<<>>, "401")
         ELSE \/ Reply(<<>>, "500")
              \/ \E kind \in ServiceErrors :
                    Reply(<<Call("devices", None, None, kind)>>, Failed(kind))
              \/ \E ds \in DeviceLists :
                    LET listed == <<Call("devices", None, None, "ok")>> IN
                    IF FirstActive(ds) # None THEN Act(listed, FirstActive(ds))
                    ELSE IF ds = <<>> THEN Reply(listed, "400_no_device")
                    ELSE \/ Reply(listed, "500")
                         \/ \E kind \in ServiceErrors :
                               Reply(Append(listed, Call("transfer_playback", ds[1].id,
                                                         Bool(FALSE), kind)),
                                     Failed(kind))
                         \/ Act(Append(listed, Call("transfer_playback", ds[1].id,
                                                    Bool(FALSE), "ok")),
                                ds[1].id)
    /\ UNCHANGED <<cliVars, settings_file>>

\* The dashboard alone, the loop waiting at its prompt.
NextWeb ==
    \/ SetPlayBehaviorBegin
    \/ SetPlayBehaviorSave
    \/ Index
    \/ Callback
    \/ DisconnectSpotify
    \/ SpotifyAction

SpecWeb == Init /\ [][NextWeb]_vars

\* The commands the loop is run on next to the account routes of the dashboard:
\* a play, which reads the settings, and a pause.
ConnectionCommands ==
    {MkCommand(Str(CMD_SPOTIFY), ABSENT,
               Dict((K_action :> Str(a)) @@ (K_track_query :> Str(SampleTrack)))) :
        a \in {SPOTIFY_ACTION_PLAY, SPOTIFY_ACTION_PAUSE}}

\* The loop next to the routes that read the settings and write the token cache.
NextConnection ==
    \/ ReadInput(LoopLines)
    \/ ReadFails
    \/ Interrupt
    \/ ParseCommand({Outcome("ok", Dict(K_response :> Text(Encode(v)))) :
                        v \in ConnectionCommands})
    \/ Dispatch
    \/ SpotifyValidate
    \/ GetSpotifyClient
    \/ AuthInput
    \/ GetDevices
    \/ ChooseDevice
    \/ PerformAction
    \/ Search
    \/ AddToQueue
    \/ StartPlaybackTrack
    \/ CurrentPlayback
    \/ StartPlayback
    \/ PlaybackControl
    \/ Index
    \/ Callback
    \/ DisconnectSpotify

SpecConnection == Init /\ [][NextConnection]_vars

\* The parser alone: every utterance against every outcome of the request.
InitParse ==
    /\ Init
    /\ cache_file = "missing"
    /\ settings_file = "missing"
    /\ credentials = TRUE

NextParse == ReadInput(RawLines) \/ ReadFails \/ ParseCommand(LLMOutcomes)

SpecParse == InitParse /\ [][NextParse]_vars

\* ------------------------------------------------------------------ properties
Lines == {out[i] : i \in DOMAIN out}
Ops == {calls[i].op : i \in DOMAIN calls}
CallsOf(op) == {i \in DOMAIN calls : calls[i].op = op}

\* The request was answered with a body that is an object, and the completion is
\* the text under "response" ("" when the key is missing).
HasCompletion ==
    /\ response.kind = "ok"
    /\ response.body.t = "dict"
    /\ Get(response.body, K_response, Text(<<>>)).t = "str"
CompletionOf == Get(response.body, K_response, Text(<<>>)).lex
Decoded == json_loads(CompletionOf)
FallbackOf(utterance) ==
    Dict((K_intent :> Str(CMD_UNKNOWN)) @@ (K_query :> Str(utterance)))

\* C1: whatever the request yields, parse_command raises nothing and returns an
\* object whose intent is one of spotify, netflix, website, unknown.
C1_AlwaysACommand ==
    response.kind # "none" =>
        /\ ~parsed.raised
        /\ parsed.value.t = "dict"
        /\ K_intent \in DOMAIN parsed.value.m
        /\ parsed.value.m[K_intent] \in {Str(i) : i \in SchemaIntents}

\* C2: a completion that is no valid JSON, JSON surrounded by prose included,
\* yields exactly {intent: unknown, query: the utterance}.
C2_InvalidJsonFallsBack ==
    (HasCompletion /\ (~Decoded.ok \/ \E i \in DOMAIN CompletionOf : CompletionOf[i] = T_prose))
        => parsed = Return(FallbackOf(user_input))

C2_Witness ==
    /\ HasCompletion
    /\ \E v \in PaddedValues : CompletionOf = <<T_prose>> \o Encode(v)
    /\ user_input # <<>>
    /\ parsed = Return(FallbackOf(user_input))

\* C3: a failed request (connection refused, timeout, error status) yields exactly
\* {intent: unknown, query: "Connection Error"}, after one request and no more.
C3_TransportFailure ==
    response.kind \in TransportFailures =>
        /\ parsed = Return(Dict((K_intent :> Str(<<"u", "n", "k", "n", "o", "w", "n">>))
                                @@ (K_query :> Str(<<"C", "o", "n", "n", "e", "c", "t", "i",
                                                     "o", "n", " ", "E", "r", "r", "o", "r">>))))
        /\ Cardinality(CallsOf("llm_post")) = 1

C3_Witness ==
    /\ response.kind = "Timeout"
    /\ ~parsed.raised
    /\ parsed.value.m[K_query] = Str(ConnectionErrorText)
    /\ Len(calls) = 1

C5_Expected(intent) ==
    IF intent = Str(<<"s", "p", "o", "t", "i", "f", "y">>) THEN "handle_spotify_command"
    ELSE IF intent = Str(<<"n", "e", "t", "f", "l", "i", "x">>) THEN "handle_netflix"
    ELSE IF intent = Str(<<"w", "e", "b", "s", "i", "t", "e">>) THEN "handle_website"
    ELSE "handle_unknown"

\* C5: dispatch of a Command whose intent is a string, null or missing invokes
\* exactly one handler, the intent's own or the unknown handler, changes nothing
\* else, and no handler is invoked twice for one Command.
C5_OneHandler ==
    [][/\ Len(invoked') <= 1
       /\ (/\ pc = "dispatch" /\ pc' # "exited"
           /\ command_data.t = "dict"
           /\ Hashable(Get(command_data, K_intent, Str(CMD_UNKNOWN))))
          => /\ invoked' = <<C5_Expected(Get(command_data, K_intent, Str(CMD_UNKNOWN)))>>
             /\ pc' = invoked'[1]
             /\ UNCHANGED <<calls, out, globals, locals, command_data>>]_vars

C5_Witness ==
    /\ pc = "handle_unknown"
    /\ invoked = <<"handle_unknown">>
    /\ Get(command_data, K_intent, ABSENT) = Str(UndeclaredIntent)

\* A play with a matching track was read against a setting of "queue".
C6_Case ==
    /\ action = Str(SPOTIFY_ACTION_PLAY)
    /\ \E i \in CallsOf("search") : calls[i].res = "hit"
    /\ settings # None
    /\ Get(settings, <<"default_play_behavior">>, None) = Str(<<"queue">>)

\* C6 as stated: under play, a match and the setting "queue", the track is queued,
\* the note is printed and start-playback is not called during the invocation.
C6_NoStartPlayback ==
    C6_Case =>
        /\ final_action = Str(SPOTIFY_ACTION_QUEUE)
        /\ "note_play_as_queue" \in Lines
        /\ pc = "prompt" => CallsOf("add_to_queue") # {}
        /\ CallsOf("start_playback") = {}

\* C6: under play, a match and the setting "queue", the track is queued and the
\* note is printed; start-playback is never called with the track, and is called
\* without one only right after the playback state showed nothing playing.
C6_QueueInsteadOfPlay ==
    C6_Case =>
        /\ final_action = Str(SPOTIFY_ACTION_QUEUE)
        /\ "note_play_as_queue" \in Lines
        /\ pc = "prompt" => CallsOf("add_to_queue") # {}
        /\ \A i \in CallsOf("start_playback") :
             /\ calls[i].item = None
             /\ i > 1
             /\ calls[i - 1].op = "current_playback"
             /\ calls[i - 1].res \in {"none", "paused"}
             /\ \E j \in 1..(i - 1) : calls[j].op = "add_to_queue" /\ calls[j].res = "ok"

C6_Witness ==
    /\ C6_Case
    /\ pc = "prompt"
    /\ \E i \in CallsOf("add_to_queue") : calls[i].res = "ok"
    /\ \E i \in CallsOf("start_playback") : calls[i].res = "ok"

\* The calls of the media service that carry out or prepare an action.
ActionOps ==
    {"search", "add_to_queue", "start_playback", "current_playback", "pause_playback",
     "next_track", "previous_track"}

\* A play or queue came without a track query, or with an empty one.
C7_Case ==
    /\ action \in {Str(SPOTIFY_ACTION_PLAY), Str(SPOTIFY_ACTION_QUEUE)}
    /\ track_query \in {None, Str(<<>>)}

\* C7: a play or queue without a track query makes no call of the media service
\* beyond the client and the device resolution, and once both are resolved the
\* handler reports that the action requires a track_query.
C7_RequiresTrackQuery ==
    C7_Case =>
        /\ Ops \cap ActionOps = {}
        /\ (pc = "prompt" /\ device_id # None) => "requires_track_query" \in Lines

C7_Witness ==
    /\ action = Str(SPOTIFY_ACTION_QUEUE)
    /\ track_query = Str(<<>>)
    /\ pc = "prompt"
    /\ device_id # None
    /\ "requires_track_query" \in Lines

\* The Spotify handler was given a Command without a usable spotify_command:
\* missing, null, not an object, or an object without an action.
C8_Case ==
    /\ invoked = <<"handle_spotify_command">>
    /\ LET d == Get(command_data, K_spotify_command, None) IN
       d.t # "dict" \/ ~Truthy(Get(d, K_action, None))

\* C8: without a usable spotify_command the handler reports the missing field,
\* without fault and without any side effect.
C8_MissingFieldNoFault ==
    (C8_Case /\ pc = "prompt") =>
        /\ Lines \cap {"missing_spotify_command", "missing_action"} # {}
        /\ "critical_error" \notin Lines
        /\ Ops = {"llm_post"}

\* The device list came back empty.
C9_Case ==
    /\ devices = <<>>
    /\ \E i \in CallsOf("devices") : calls[i].res = "ok"

\* C9: with an empty device list the handler reports that no devices were found
\* and returns, with no transfer, search, queue, start, pause or skip call,
\* whatever the action.
C9_NoDevices ==
    C9_Case =>
        /\ pc = "prompt"
        /\ "no_devices_found" \in Lines
        /\ Ops \cap (ActionOps \cup {"transfer_playback"}) = {}
        /\ device_id = None

C9_Witness ==
    /\ C9_Case
    /\ action = Str(SPOTIFY_ACTION_PAUSE)
    /\ "no_devices_found" \in Lines

\* C10: when a call of the action fails, the handler reports it and makes no
\* further call; an expired token also removes the token cache and clears the
\* client, any other failure leaves both as they were.
C10_AuthExpiry ==
    [][(/\ Len(calls') = Len(calls) + 1
        /\ calls'[Len(calls')].op \in ActionOps
        /\ calls'[Len(calls')].res \in ServiceErrors)
       => LET kind == calls'[Len(calls')].res IN
          /\ pc' = "prompt"
          /\ Len(out') = Len(out) + 1
          /\ \A i \in 1..Len(calls) :
               ~(calls[i].op \in ActionOps /\ calls[i].res \in ServiceErrors)
          /\ IF kind = "token_expired"
             THEN /\ cache_file' = "missing"
                  /\ sp' = None
                  /\ out'[Len(out')] = "error_token_expired"
             ELSE /\ cache_file' = cache_file
                  /\ sp' = sp
                  /\ sp' # None
                  /\ out'[Len(out')] \in {"error_no_active_device",
                                          "error_restriction_violated", "error_api",
                                          "error_unexpected"}]_vars

C10_Witness ==
    /\ calls # <<>>
    /\ calls[Len(calls)].op = "add_to_queue"
    /\ calls[Len(calls)].res = "token_expired"
    /\ cache_file = "missing"
    /\ sp = None
    /\ pc = "prompt"

\* C11: no handler lets an exception reach its caller: whenever a handler was
\* invoked and the loop is back at the prompt, the loop's except clause has not
\* run and the handler's last word is a status line of its own.
C11_NoHandlerFault ==
    (invoked # <<>> /\ pc = "prompt") =>
        /\ "critical_error" \notin Lines
        /\ out # <<>>

\* C12: the loop ends only on exit or quit (in any case) read at the prompt, or
\* on an interrupt; an error caught by the loop leaves it at the prompt; and
\* nothing is parsed or handled for an empty line, exit or quit.
C12_LoopSurvivesErrors ==
    [][/\ pc' = "exited" =>
            \/ out' = <<"force_quit">>
            \/ /\ pc = "prompt"
               /\ out' = <<"goodbye">>
               /\ lower(user_input') \in {<<"e", "x", "i", "t">>, <<"q", "u", "i", "t">>}
       /\ "critical_error" \in {out'[i] : i \in DOMAIN out'} => pc' = "prompt"
       /\ (calls' # <<>> \/ invoked' # <<>> \/ pc' \notin {"prompt", "exited"}) =>
            /\ user_input' # <<>>
            /\ lower(user_input') \notin {<<"e", "x", "i", "t">>, <<"q", "u", "i", "t">>}]_vars

C12_Witness ==
    /\ pc = "prompt"
    /\ invoked = <<"handle_website">>
    /\ "critical_error" \in Lines

\* The browser calls of the iteration, in order.
BrowserCalls == SelectSeq(calls, LAMBDA c : c.op = "browser_open")

\* C13: for a query that is a string, the website handler opens the browser
\* exactly once, on the query itself when it starts with http:// or https://
\* and on https:// followed by the query otherwise.
C13_WebsiteURL ==
    (invoked = <<"handle_website">> /\ pc = "prompt"
        /\ Get(command_data, K_query, ABSENT).t = "str") =>
        LET q == Get(command_data, K_query, ABSENT).s
            http == <<"h", "t", "t", "p", ":", "/", "/">>
            https == <<"h", "t", "t", "p", "s", ":", "/", "/">>
            hasScheme ==
                \/ Len(q) >= Len(http) /\ SubSeq(q, 1, Len(http)) = http
                \/ Len(q) >= Len(https) /\ SubSeq(q, 1, Len(https)) = https
        IN /\ Len(BrowserCalls) = 1
           /\ BrowserCalls[1].item = Str(IF hasScheme THEN q ELSE https \o q)

C13_Witness ==
    /\ invoked = <<"handle_website">>
    /\ pc = "prompt"
    /\ Get(command_data, K_query, ABSENT) = Str(<<"h", "t", "t", "p", ":", "/", "/", "a">>)
    /\ Len(BrowserCalls) = 1
    /\ BrowserCalls[1].item = Str(<<"h", "t", "t", "p", ":", "/", "/", "a">>)

\* Percent-encoding of the characters that are reserved in a URL.
RECURSIVE Quoted(_)
Quoted(s) ==
    IF s = <<>> THEN <<>>
    ELSE (CASE Head(s) = " " -> <<"%", "2", "0">>
            [] Head(s) = "&" -> <<"%", "2", "6">>
            [] Head(s) = "#" -> <<"%", "2", "3">>
            [] Head(s) = "?" -> <<"%", "3", "F">>
            [] OTHER -> <<Head(s)>>) \o Quoted(Tail(s))

\* C14: the video-search handler opens the browser once, on the search endpoint
\* followed by the percent-encoded query, the placeholder when there is no query.
C14_NetflixURLEncoded ==
    (invoked = <<"handle_netflix">> /\ pc = "prompt"
        /\ Get(command_data, K_query, Str(<<>>)).t = "str") =>
        /\ Len(BrowserCalls) = 1
        /\ IF K_query \in DOMAIN command_data.m
           THEN BrowserCalls[1].item =
                    Str(NetflixSearchURL \o Quoted(command_data.m[K_query].s))
           ELSE BrowserCalls[1].item \in
                    {Str(NetflixSearchURL \o NetflixDefaultQuery),
                     Str(NetflixSearchURL \o Quoted(NetflixDefaultQuery))}

\* The service listed devices and none of them is active.
C15_Case ==
    /\ devices # <<>>
    /\ \A i \in DOMAIN devices : ~devices[i].is_active
    /\ \E i \in CallsOf("devices") : calls[i].res = "ok"

\* What C15 says of the prompt: a device is resolved only by an index of the
\* list, through one transfer to that device asked right after the answer; an
\* answer that is no index of the list, or s, is followed by no transfer.
C15_PromptDecides ==
    C15_Case =>
        /\ device_id # None =>
             \E i \in CallsOf("transfer_playback") :
                /\ calls[i].res = "ok"
                /\ calls[i].dev = device_id
                /\ \E k \in DOMAIN devices : devices[k].id = device_id
                /\ i > 1 /\ calls[i - 1].op = "input" /\ calls[i - 1].res = "int"
        /\ \A i \in CallsOf("transfer_playback") :
             i > 1 /\ calls[i - 1].op = "input" /\ calls[i - 1].res = "int"
        /\ Cardinality(CallsOf("transfer_playback")) <= 1
        /\ \A i \in CallsOf("input") :
             calls[i].res \in {"s", "text"} =>
                (i = Len(calls) \/ calls[i + 1].op \notin {"transfer_playback"} \cup ActionOps)
        /\ "skipping" \in Lines => (device_id = None /\ pc = "prompt")

\* C15: with devices listed and none active, the prompt decides as above and the
\* transfer to the chosen device does not start playback on it.
C15_TransferWithoutPlay ==
    /\ C15_PromptDecides
    /\ C15_Case =>
         \A i \in CallsOf("transfer_playback") : calls[i].item = Bool(FALSE)

\* The calls that act on a device.
DeviceOps ==
    {"add_to_queue", "start_playback", "pause_playback", "next_track", "previous_track"}

\* The service listed devices and at least one is active.
C16_Case ==
    /\ \E i \in DOMAIN devices : devices[i].is_active
    /\ \E i \in CallsOf("devices") : calls[i].res = "ok"

\* C16: with an active device in the list, the first active one in list order is
\* resolved, with no prompt and no transfer, and every queue, playback and
\* transport call of the invocation names that device.
C16_FirstActiveDevice ==
    C16_Case =>
        LET first == CHOOSE i \in DOMAIN devices :
                        devices[i].is_active /\ \A j \in 1..(i - 1) : ~devices[j].is_active
        IN /\ device_id = devices[first].id
           /\ \A i \in DOMAIN calls :
                /\ calls[i].op = "input" => i < CHOOSE k \in CallsOf("devices") : TRUE
                /\ calls[i].op # "transfer_playback"
                /\ calls[i].op \in DeviceOps => calls[i].dev = devices[first].id
           /\ "device_list" \notin Lines

C16_Witness ==
    /\ C16_Case
    /\ Len(devices) = 2
    /\ ~devices[1].is_active
    /\ \E i \in CallsOf("add_to_queue") : calls[i].dev = devices[2].id
    /\ \E i \in CallsOf("start_playback") : calls[i].dev = devices[2].id

\* A play or queue whose search matched a track has run to its end.
C17_Case ==
    /\ action \in {Str(SPOTIFY_ACTION_PLAY), Str(SPOTIFY_ACTION_QUEUE)}
    /\ \E i \in CallsOf("search") : calls[i].res = "hit"
    /\ pc = "prompt"

\* C17: after a match the track is queued when the action is queue or the action
\* is play and the stored setting is "queue" (the default of a missing file), and
\* played directly otherwise: one add-to-queue or one start-playback with the
\* track on the resolved device, never both and never neither.  A queue action
\* reads no setting; without a match the handler reports it and neither queues,
\* plays nor reads the setting.
C17_QueueOrPlay ==
    /\ C17_Case =>
         LET queueing ==
                 \/ action = Str(SPOTIFY_ACTION_QUEUE)
                 \/ settings_file \in {"queue", "missing"}
             adds == CallsOf("add_to_queue")
             plays == {i \in CallsOf("start_playback") : calls[i].item # None}
         IN /\ Cardinality(adds) + Cardinality(plays) = 1
            /\ queueing <=> adds # {}
            /\ \A i \in adds \cup plays :
                 calls[i].item = Str(TrackUri) /\ calls[i].dev = device_id
    /\ action = Str(SPOTIFY_ACTION_QUEUE) => CallsOf("load_settings") = {}
    /\ (\E i \in CallsOf("search") : calls[i].res = "miss") =>
         /\ "no_track_found" \in Lines
         /\ Ops \cap {"add_to_queue", "start_playback", "current_playback",
                      "load_settings"} = {}

\* C18: the playback state is read only right after a successful add-to-queue,
\* once; when it shows nothing playing the next and last call is start-playback
\* without a track on the resolved device, when it shows something playing no
\* call follows; after a direct play it is not read.
C18_StartAfterQueue ==
    /\ Cardinality(CallsOf("current_playback")) <= 1
    /\ \A i \in CallsOf("current_playback") :
         /\ i > 1 /\ calls[i - 1].op = "add_to_queue" /\ calls[i - 1].res = "ok"
         /\ calls[i].res = "playing" => (i = Len(calls) /\ pc = "prompt")
         /\ (calls[i].res \in {"none", "paused"} /\ pc = "prompt") =>
              /\ Len(calls) = i + 1
              /\ calls[i + 1].op = "start_playback"
              /\ calls[i + 1].item = None
              /\ calls[i + 1].dev = device_id
    /\ \A i \in CallsOf("add_to_queue") :
         (calls[i].res = "ok" /\ pc = "prompt") => CallsOf("current_playback") = {i + 1}
    /\ (\E i \in CallsOf("start_playback") : calls[i].item # None) =>
         CallsOf("current_playback") = {}

C18_Witness ==
    /\ pc = "prompt"
    /\ \E i \in CallsOf("current_playback") :
         /\ calls[i].res = "paused"
         /\ calls[i - 1].op = "add_to_queue"
         /\ Len(calls) = i + 1
         /\ calls[i + 1].op = "start_playback"
         /\ calls[i + 1].res = "ok"

\* C19 as stated: every play or queue action carried out on a matched track has
\* read the setting exactly once, and only set_play_behavior writes the file.
C19_ReadOncePerAction ==
    [][/\ settings_file' # settings_file => (web'.pc # web.pc /\ pc' = pc /\ calls' = calls)
       /\ (/\ pc' = "prompt"
           /\ action' \in {Str(SPOTIFY_ACTION_PLAY), Str(SPOTIFY_ACTION_QUEUE)}
           /\ \E i \in DOMAIN calls' : calls'[i].op = "search" /\ calls'[i].res = "hit")
          => Cardinality({i \in DOMAIN calls' : calls'[i].op = "load_settings"}) = 1]_vars

\* C19: the settings file changes only in a step of the dashboard's
\* set_play_behavior, never in a step of the parser, the dispatcher or a handler;
\* an invocation reads it at most once, exactly once for a play whose search
\* matched a track and never for any other command.
C19_SettingsReadOnly ==
    [][LET reads == {i \in DOMAIN calls' : calls'[i].op = "load_settings"} IN
       /\ settings_file' # settings_file =>
            /\ web'.pc # web.pc
            /\ web.pc = "saving" => (settings_file' = web.behavior /\ web'.reply = "success")
            /\ web.pc = "idle" => web'.behavior \in {"play_direct", "queue"}
            /\ UNCHANGED cliVars
       /\ Cardinality(reads) <= 1
       /\ \A i \in reads :
            /\ action' = Str(SPOTIFY_ACTION_PLAY)
            /\ i > 1 /\ calls'[i - 1].op = "search" /\ calls'[i - 1].res = "hit"
       /\ (/\ action' = Str(SPOTIFY_ACTION_PLAY)
           /\ \E i \in DOMAIN calls' : calls'[i].op = "search" /\ calls'[i].res = "hit")
          => reads # {}]_vars

C19_Witness ==
    /\ pc = "prompt"
    /\ action = Str(SPOTIFY_ACTION_PLAY)
    /\ Cardinality(CallsOf("load_settings")) = 1
    /\ \E i \in CallsOf("add_to_queue") : calls[i].res = "ok"
    /\ Get(settings, <<"default_play_behavior">>, None) = Str(<<"queue">>)
    /\ settings_file = "play_direct"
    /\ web.reply = "success"

\* The action strings the Spotify handler knows.
KnownActions ==
    {Str(<<"p", "l", "a", "y">>), Str(<<"q", "u", "e", "u", "e">>),
     Str(<<"s", "k", "i", "p", "_", "n", "e", "x", "t">>),
     Str(<<"s", "k", "i", "p", "_", "p", "r", "e", "v", "i", "o", "u", "s">>),
     Str(<<"p", "a", "u", "s", "e">>), Str(<<"r", "e", "s", "u", "m", "e">>)}

\* The calls of the action made so far, in order.
ActionCalls == SelectSeq(calls, LAMBDA c : c.op \in ActionOps)

\* C20: a completion whose action is none of the six known strings is returned
\* by the parser as decoded; the handler, once client and device are resolved,
\* reports an unknown action and makes no call of an action.  skip_next,
\* skip_previous, pause and resume each make one call, of next-track,
\* previous-track, pause and start-playback without a track, on the resolved device.
C20_UnknownAndTransport ==
    /\ (/\ HasCompletion /\ Decoded.ok /\ Decoded.val.t = "dict"
        /\ K_intent \in DOMAIN Decoded.val.m
        /\ Get(Decoded.val, K_spotify_command, None).t = "dict"
        /\ Get(Get(Decoded.val, K_spotify_command, None), K_action, None) \notin KnownActions)
       => parsed = Return(Decoded.val)
    /\ (Truthy(action) /\ action \notin KnownActions) =>
         /\ ActionCalls = <<>>
         /\ (pc = "prompt" /\ device_id # None) => "unknown_action" \in Lines
    /\ (pc = "prompt" /\ device_id # None /\ action \in KnownActions
          /\ action \notin {Str(<<"p", "l", "a", "y">>), Str(<<"q", "u", "e", "u", "e">>)}) =>
         /\ Len(ActionCalls) = 1
         /\ ActionCalls[1].dev = device_id
         /\ ActionCalls[1].item = None
         /\ ActionCalls[1].op =
              (CASE action = Str(<<"s", "k", "i", "p", "_", "n", "e", "x", "t">>) -> "next_track"
                 [] action = Str(<<"p", "a", "u", "s", "e">>) -> "pause_playback"
                 [] action = Str(<<"r", "e", "s", "u", "m", "e">>) -> "start_playback"
                 [] OTHER -> "previous_track")

C20_Witness ==
    /\ action = Str(UndeclaredAction)
    /\ pc = "prompt"
    /\ device_id # None
    /\ "unknown_action" \in Lines
    /\ ActionCalls = <<>>


\* The authorize URL was opened in this invocation.
C21_FlowRan == \E i \in CallsOf("browser_open") : calls[i].item = Str(AuthorizeURL)

\* The calls that resolve a device or carry out an action.
C21_ServiceOps == ActionOps \cup {"devices", "transfer_playback"}

C21_State ==
    /\ pc = "auth_input" => (C21_FlowRan /\ sp = None /\ cache_file = "missing")
    /\ C21_FlowRan =>
         /\ \A i \in CallsOf("get_spotify_client") : calls[i].res = "new"
         /\ \E j \in CallsOf("get_cached_token") :
              /\ calls[j].res = "none"
              /\ \A i \in CallsOf("browser_open") : j < i
         /\ \A i \in CallsOf("input") :
              calls[i].res \in {"redirect_url", "EOFError"} =>
                \E k \in CallsOf("browser_open") : k < i
    /\ (\E i \in CallsOf("get_spotify_client") : calls[i].res = "cached") =>
         /\ "auth_prompt" \notin Lines
         /\ Ops \cap {"browser_open", "get_cached_token", "get_access_token"} = {}
         /\ \A i \in CallsOf("input") : calls[i].res \notin {"redirect_url", "EOFError"}
    /\ (C21_FlowRan /\ pc = "prompt"
        /\ \A i \in CallsOf("get_access_token") : calls[i].res # "token") =>
         /\ sp = None
         /\ Ops \cap C21_ServiceOps = {}
         /\ CallsOf("get_access_token") # {} => "not_connected" \in Lines

C21_Step ==
    (pc = "get_spotify_client" /\ pc' \notin {"get_spotify_client", "exited"}) =>
        IF Truthy(sp)
        THEN /\ sp' = sp
             /\ out' = out
             /\ pc' = "get_active_device_id"
             /\ calls' = Append(calls, Call("get_spotify_client", None, None, "cached"))
        ELSE /\ \E i \in DOMAIN calls' :
                  /\ calls'[i].op = "get_spotify_client"
                  /\ calls'[i].res \in {"new", "SpotifyOauthError"}
             /\ pc' = "get_active_device_id" =>
                  (sp' = Client /\ cache_file = "token"
                   /\ calls'[Len(calls')] = Call("get_cached_token", None, None, "token"))

C22_Case ==
    /\ Len(calls') > Len(calls)
    /\ calls'[Len(calls')].op \in {"devices", "transfer_playback"}
    /\ calls'[Len(calls')].res = "token_expired"

\* C22: when devices() or transfer_playback() fails on an invalid or expired
\* token, the token cache is removed and the client handle cleared, the handler
\* prints the failure and returns without any search, queue, playback or skip
\* call; and an invocation that finds the handle empty never takes the cached
\* path: it asks the token cache and, without a token there, starts the flow.
C22_DeviceTokenExpiry ==
    [][/\ C22_Case =>
            /\ sp # None
            /\ cache_file' = "missing"
            /\ sp' = None
            /\ pc' = "prompt"
            /\ out' = out \o <<"device_token_expired", "no_suitable_device">>
            /\ \A i \in DOMAIN calls' : calls'[i].op \notin ActionOps
       /\ (pc = "get_spotify_client" /\ sp = None /\ spotify_oauth' # None) =>
            /\ \A i \in DOMAIN calls' :
                 calls'[i].op = "get_spotify_client" => calls'[i].res = "new"
            /\ \E i \in DOMAIN calls' : calls'[i].op = "get_cached_token"
            /\ pc' \in {"auth_input", "get_active_device_id", "prompt"}
            /\ cache_file = "missing" => pc' = "auth_input"]_vars

C22_Witness ==
    /\ pc = "prompt"
    /\ \E i \in CallsOf("get_spotify_client") : calls[i].res = "cached"
    /\ calls[Len(calls)] = Call("devices", None, None, "token_expired")
    /\ sp = None
    /\ cache_file = "missing"


\* C23: a Command returned by parse_command carries a spotify_command only when
\* its intent is spotify.
C23_PayloadOnlyForSpotify ==
    (response.kind # "none" /\ ~parsed.raised /\ parsed.value.t = "dict"
     /\ K_spotify_command \in DOMAIN parsed.value.m)
        => Get(parsed.value, K_intent, None) = Str(CMD_SPOTIFY)


\* C24: a play invocation that reads the settings file while the dashboard
\* rewrites it (or before, or after) does not fail: it goes on to queue the track
\* or to play it, as the stored value says when the file is not being written.
C24_WriteNeverBreaksPlay ==
    [][(/\ Cardinality({i \in DOMAIN calls' : calls'[i].op = "load_settings"})
             > Cardinality(CallsOf("load_settings"))
        /\ settings_file \in {"missing", "queue", "play_direct", "empty"})
       => /\ "error_unexpected" \notin {out'[i] : i \in DOMAIN out'}
          /\ pc' \in {"add_to_queue", "start_playback_track"}
          /\ settings_file \in {"missing", "queue"} => pc' = "add_to_queue"
          /\ settings_file = "play_direct" => pc' = "start_playback_track"]_vars


C26_SameDefault ==
    [][/\ (/\ Cardinality({i \in DOMAIN calls' : calls'[i].op = "load_settings"})
                > Cardinality(CallsOf("load_settings"))
            /\ settings_file \in SettingsStates)
           => /\ pc' = "add_to_queue" <=> DashboardDefault(settings_file) = Str(<<"queue">>)
              /\ pc' = "start_playback_track"
                   <=> DashboardDefault(settings_file) = Str(<<"play_direct">>)
       /\ (web'.route = "index" /\ web'.reply # "500" /\ pc' = pc /\ calls' = calls)
           => web'.shown = DashboardDefault(settings_file)]_vars


\* The states of the settings file that hold a default play behaviour the
\* dashboard can have written, and the missing file.
C27_Stored == {"missing", "queue", "play_direct"}

C28_Changing ==
    {"transfer_playback", "start_playback", "pause_playback", "next_track", "previous_track"}

====
